---- MODULE Spec2Model ----
(***************************************************************************)
(* Model of the stylesheet parser of src/src/parse.rs (CssParser).         *)
(* A character is a one-character string, a string is a sequence of        *)
(* characters, and the parser's fields are the variables of the module.    *)
(***************************************************************************)
EXTENDS Integers, Sequences, FiniteSets, TLC

VARIABLES stack, char_buffer, current_char, root, ruleset, rule, css, pc, output,
          classified

vars == <<stack, char_buffer, current_char, root, ruleset, rule, css, pc, output,
          classified>>

(* Longest input text that is parsed. *)
MaxLen == 5

(* Longest text that follows DeclPrefix in the inputs of SpecDecl. *)
MaxTail == 5

(* The characters an input text is made of: every delimiter of the         *)
(* grammar, one ordinary character and one whitespace character.           *)
Chars == {"a", " ", "{", "}", ":", ";", ",", "\"", "'"}

(* The start of a declaration value: the inputs of SpecDecl begin so. *)
DeclPrefix == <<"a", "{", "a", ":">>

(* char::is_whitespace, as used by str::trim, on the characters above. *)
is_whitespace(c) == c \in {" ", "\n", "\r", "\t"}

(* str::trim: drops leading, then trailing, whitespace. *)
RECURSIVE trim_start(_)
trim_start(s) ==
    IF s = <<>> THEN <<>>
    ELSE IF is_whitespace(Head(s)) THEN trim_start(Tail(s))
    ELSE s

RECURSIVE trim_end(_)
trim_end(s) ==
    IF s = <<>> THEN <<>>
    ELSE IF is_whitespace(s[Len(s)]) THEN trim_end(SubSeq(s, 1, Len(s) - 1))
    ELSE s

(* Mutant of trim: trailing whitespace is left in place. *)
trim_start_only(s) == trim_start(s)

trim(s) == trim_end(trim_start(s))

CssRoot_new == <<>>

CssRuleSet_new == [selectors |-> <<>>, rules |-> <<>>]

CssRule_new == [key |-> <<>>, value |-> <<>>]

(* The test functions: character -> (context, command). *)
(* Mutant of CssRoot_test: `}` ends the Root context. *)
CssRoot_test_end(c) ==
    IF c = "}" THEN [context |-> "None", command |-> "End"]
    ELSE [context |-> "Selector", command |-> "Begin"]

CssRoot_test(c) == [context |-> "Selector", command |-> "Begin"]

CssSelector_test(c) ==
    IF c = "{" THEN [context |-> "None", command |-> "End"]
    ELSE IF c = "," THEN [context |-> "Selector", command |-> "Append"]
    ELSE [context |-> "Selector", command |-> "None"]

(* Mutant of CssRuleSet_test: whitespace is not absorbed, it begins a key. *)
CssRuleSet_test_no_blank(c) ==
    IF c = "}" THEN [context |-> "None", command |-> "End"]
    ELSE [context |-> "Key", command |-> "Begin"]

(* Mutant of CssRuleSet_test: `}` ends the rule set and is kept. *)
CssRuleSet_test_keep(c) ==
    IF c \in {" ", "\n", "\r", "\t"} THEN [context |-> "RuleSet", command |-> "None"]
    ELSE IF c = "}" THEN [context |-> "None", command |-> "EndKeepChar"]
    ELSE [context |-> "Key", command |-> "Begin"]

CssRuleSet_test(c) ==
    IF c \in {" ", "\n", "\r", "\t"} THEN [context |-> "RuleSet", command |-> "None"]
    ELSE IF c = "}" THEN [context |-> "None", command |-> "End"]
    ELSE [context |-> "Key", command |-> "Begin"]

(* Mutant of CssKey_test: `}` ends a key too. *)
CssKey_test_brace(c) ==
    IF c \in {":", "}"} THEN [context |-> "None", command |-> "End"]
    ELSE [context |-> "Key", command |-> "None"]

CssKey_test(c) ==
    IF c = ":" THEN [context |-> "None", command |-> "End"]
    ELSE [context |-> "Key", command |-> "None"]

(* Mutant of CssValue_test: `}` ends the value without being kept. *)
CssValue_test_drop_brace(c) ==
    IF c \in {"\"", "'"} THEN [context |-> "String", command |-> "Begin"]
    ELSE IF c \in {";", "}"} THEN [context |-> "None", command |-> "End"]
    ELSE [context |-> "Value", command |-> "None"]

CssValue_test(c) ==
    IF c = "\"" THEN [context |-> "String", command |-> "Begin"]
    ELSE IF c = "'" THEN [context |-> "String", command |-> "Begin"]
    ELSE IF c = ";" THEN [context |-> "None", command |-> "End"]
    ELSE IF c = "}" THEN [context |-> "None", command |-> "EndKeepChar"]
    ELSE [context |-> "Value", command |-> "None"]

(* Mutant of CssString_test: `;` ends a string too. *)
CssString_test_semicolon(c) ==
    IF c \in {"\"", "'", ";"} THEN [context |-> "None", command |-> "End"]
    ELSE [context |-> "String", command |-> "None"]

CssString_test(c) ==
    IF c \in {"\"", "'"} THEN [context |-> "None", command |-> "End"]
    ELSE [context |-> "String", command |-> "None"]

(* The parser as a record p: the methods of CssParser. *)
push_context(p, context) == [p EXCEPT !.stack = Append(@, context)]

(* Mutant of pop_context: nothing is popped. *)
pop_context_none(p) == p

pop_context(p) ==
    [p EXCEPT !.stack = IF @ = <<>> THEN @ ELSE SubSeq(@, 1, Len(@) - 1)]

(* Mutant of flush_char_buffer: the buffer is not cleared. *)
flush_char_buffer_keep(p) == [val |-> trim(p.char_buffer), state |-> p]

flush_char_buffer(p) ==
    [val |-> trim(p.char_buffer), state |-> [p EXCEPT !.char_buffer = <<>>]]

push_char(p, c) == [p EXCEPT !.char_buffer = Append(@, c)]

(* begin/append/end of the contexts. *)
CssSelector_begin(p) == push_char(p, p.current_char)

(* Mutant of CssSelector_end: the RuleSet context is not pushed. *)
CssSelector_end_no_push(p) ==
    LET f == flush_char_buffer(p)
    IN  [f.state EXCEPT !.ruleset.selectors = Append(@, f.val)]

CssSelector_end(p) ==
    LET f == flush_char_buffer(p)
    IN  push_context([f.state EXCEPT !.ruleset.selectors = Append(@, f.val)],
                     "RuleSet")

(* Mutant of CssSelector_append: the selector is put first in the list. *)
CssSelector_append_front(p) ==
    LET f == flush_char_buffer(p)
    IN  [f.state EXCEPT !.ruleset.selectors = <<f.val>> \o @]

(* Mutant of CssSelector_append: the buffer is not cleared. *)
CssSelector_append_keep(p) ==
    [p EXCEPT !.ruleset.selectors = Append(@, trim(p.char_buffer))]

CssSelector_append(p) ==
    LET f == flush_char_buffer(p)
    IN  [f.state EXCEPT !.ruleset.selectors = Append(@, f.val)]

(* Mutant of CssRuleSet_end: the rule set replaces the Document's list. *)
CssRuleSet_end_replace(p) ==
    [p EXCEPT !.root = <<p.ruleset>>, !.ruleset = CssRuleSet_new]

CssRuleSet_end(p) ==
    [p EXCEPT !.root = Append(@, p.ruleset), !.ruleset = CssRuleSet_new]

CssKey_end(p) ==
    LET f == flush_char_buffer(p)
    IN  push_context([f.state EXCEPT !.rule.key = f.val], "Value")

(* Mutant of CssValue_end: the rule in progress is copied, not replaced. *)
CssValue_end_keep_rule(p) ==
    LET f == flush_char_buffer(p)
        q == [f.state EXCEPT !.rule.value = f.val]
    IN  [q EXCEPT !.ruleset.rules = Append(@, q.rule)]

CssValue_end(p) ==
    LET f == flush_char_buffer(p)
        q == [f.state EXCEPT !.rule.value = f.val]
    IN  [q EXCEPT !.ruleset.rules = Append(@, q.rule), !.rule = CssRule_new]

(* Mutant of CssString_end: the closing quote is dropped. *)
CssString_end_drop(p) == p

CssString_end(p) == push_char(p, p.current_char)

current_context(p) ==
    IF p.stack = <<>> THEN "None" ELSE p.stack[Len(p.stack)]

test(context, c) ==
    CASE context = "Root" -> CssRoot_test(c)
      [] context = "Selector" -> CssSelector_test(c)
      [] context = "RuleSet" -> CssRuleSet_test(c)
      [] context = "Key" -> CssKey_test(c)
      [] context = "Value" -> CssValue_test(c)
      [] context = "String" -> CssString_test(c)

end(context, p) ==
    CASE context = "Selector" -> CssSelector_end(p)
      [] context = "Key" -> CssKey_end(p)
      [] context = "Value" -> CssValue_end(p)
      [] context = "RuleSet" -> CssRuleSet_end(p)
      [] context = "String" -> CssString_end(p)
      [] OTHER -> p

(* Mutant of begin: entering Selector does not push the character. *)
begin_not_selector(next_context, p) ==
    CASE next_context \in {"Key", "String"} -> CssSelector_begin(p)
      [] OTHER -> p

(* Mutant of begin: entering String does not push the character. *)
begin_not_string(next_context, p) ==
    CASE next_context \in {"Selector", "Key"} -> CssSelector_begin(p)
      [] OTHER -> p

begin(next_context, p) ==
    CASE next_context \in {"Selector", "Key", "String"} -> CssSelector_begin(p)
      [] OTHER -> p

(* parse_char: one decision step for current_char, and after EndKeepChar   *)
(* the same again against the new top of the stack. p.classified records   *)
(* the stack each decision step found when it classified the character.    *)
RECURSIVE parse_char(_)
parse_char(p0) ==
    LET p == [p0 EXCEPT !.classified = Append(@, p0.stack)]
        context == current_context(p)
    IN  IF context \notin {"Root", "Selector", "RuleSet", "Key", "Value", "String"}
        THEN [p EXCEPT !.panicked = TRUE]
        ELSE
        LET test_result == test(context, p.current_char)
            command == test_result.command
            next_context == test_result.context
        IN  CASE command \in {"End", "EndKeepChar"} ->
                   LET q == end(context, pop_context(p))
                   IN  IF command = "EndKeepChar" THEN parse_char(q) ELSE q
              [] command = "Append" ->
                   IF context = "Selector" THEN CssSelector_append(p) ELSE p
              [] command = "Begin" ->
                   begin(next_context, push_context(p, next_context))
              [] command = "None" -> push_char(p, p.current_char)

(* The parser's fields as a record, and back. *)
parser ==
    [stack |-> stack, char_buffer |-> char_buffer, current_char |-> current_char,
     root |-> root, ruleset |-> ruleset, rule |-> rule, panicked |-> FALSE,
     classified |-> <<>>]

(* CssParser::new *)
Init ==
    /\ stack = <<"Root">>
    /\ char_buffer = <<>>
    /\ current_char = "\\0"
    /\ root = CssRoot_new
    /\ ruleset = CssRuleSet_new
    /\ rule = CssRule_new
    /\ css = <<>>
    /\ pc = "parse"
    /\ output = "none"
    /\ classified = <<>>

(* One iteration of the loop of parse, for the next character c of css. *)
parse_next(c) ==
    /\ pc = "parse"
    /\ LET q == parse_char([parser EXCEPT !.current_char = c])
       IN  /\ stack' = q.stack
           /\ char_buffer' = q.char_buffer
           /\ current_char' = q.current_char
           /\ root' = q.root
           /\ ruleset' = q.ruleset
           /\ rule' = q.rule
           /\ classified' = q.classified
           /\ pc' = IF q.panicked THEN "panic" ELSE "parse"
    /\ css' = Append(css, c)
    /\ UNCHANGED output

(* The end of parse: css is exhausted and the root is printed. *)
parse_end ==
    /\ pc = "parse"
    /\ pc' = "done"
    /\ output' = "Document"
    /\ UNCHANGED <<stack, char_buffer, current_char, root, ruleset, rule, css,
                   classified>>

(* Every input text of at most MaxLen characters. *)
parse == \E c \in Chars : Len(css) < MaxLen /\ parse_next(c)

Next == parse \/ parse_end

Spec == Init /\ [][Next]_vars

(* Every input text that is DeclPrefix and at most MaxTail characters more. *)
parse_decl ==
    \E c \in Chars :
        /\ Len(css) < Len(DeclPrefix) + MaxTail
        /\ Len(css) < Len(DeclPrefix) => c = DeclPrefix[Len(css) + 1]
        /\ parse_next(c)

NextDecl == parse_decl \/ parse_end

SpecDecl == Init /\ [][NextDecl]_vars

(***************************************************************************)
(* Vocabulary of the properties.                                           *)
(***************************************************************************)
Top == stack[Len(stack)]

Last(s) == s[Len(s)]

IsPrefix(s, t) == Len(s) <= Len(t) /\ SubSeq(t, 1, Len(s)) = s

(* The step of parse that reads the character c. *)
Reads(c) == css' = Append(css, c)

Quotes == {"\"", "'"}

(* C1: when the input ends while a Value, RuleSet or String context is on  *)
(* the stack, parse yields a parse error and no Document.                  *)
C1_UnterminatedIsError ==
    (pc = "done" /\ \E i \in 1..Len(stack) : stack[i] \in {"Value", "RuleSet", "String"})
        => output = "ParseError"

(* The step of C2. *)
C2_SourceOrderStep ==
    /\ IsPrefix(root, root')
    /\ Len(root') <= Len(root) + 1
    /\ LET now == IF Len(root') = Len(root) THEN ruleset' ELSE Last(root')
       IN  /\ IsPrefix(ruleset.selectors, now.selectors)
           /\ Len(now.selectors) <= Len(ruleset.selectors) + 1
           /\ IsPrefix(ruleset.rules, now.rules)
           /\ Len(now.rules) <= Len(ruleset.rules) + 1
    /\ Len(root') > Len(root) => ruleset' = CssRuleSet_new
    /\ \A c \in {",", "{"} :
          (Reads(c) /\ Top = "Selector") =>
              Len(ruleset'.selectors) = Len(ruleset.selectors) + 1
    /\ (Reads(";") /\ Top = "Value") => Len(ruleset'.rules) = Len(ruleset.rules) + 1
    /\ (Reads("}") /\ Top \in {"Value", "RuleSet"}) => Len(root') = Len(root) + 1

(* C2: rule sets, selectors and rules are stored in the order in which     *)
(* their terminating character is read: each list only ever grows by one   *)
(* element at its end, and the rule set moved into the Document carries    *)
(* the selectors and rules of the rule set in progress, in their order.    *)
C2_SourceOrder == [][C2_SourceOrderStep]_vars

(* The input a{a:;a:a; has been read: two different rules, in order. *)
C2_Witness ==
    /\ root = <<>>
    /\ ruleset.rules = <<[key |-> <<"a">>, value |-> <<>>],
                         [key |-> <<"a">>, value |-> <<"a">>]>>

(* The step of C3. *)
C3_BraceInValueStep ==
    (Reads("}") /\ Top = "Value") =>
        /\ Len(root') = Len(root) + 1
        /\ IsPrefix(root, root')
        /\ Last(root').selectors = ruleset.selectors
        /\ Len(Last(root').rules) = Len(ruleset.rules) + 1
        /\ IsPrefix(ruleset.rules, Last(root').rules)
        /\ Last(Last(root').rules) = [key |-> rule.key, value |-> trim(char_buffer)]
        /\ stack' = SubSeq(stack, 1, Len(stack) - 2)
        /\ ruleset' = CssRuleSet_new

(* C3: a `}` read in Value context completes the declaration (one rule     *)
(* with the accumulated key and value is appended to the rule set in       *)
(* progress) and closes the rule set exactly once (one rule set is         *)
(* appended to the Document).                                              *)
C3_BraceInValue == [][C3_BraceInValueStep]_vars

(* The input a{a:a} has been read. *)
C3_Witness ==
    /\ css = <<"a", "{", "a", ":", "a", "}">>
    /\ root = <<[selectors |-> <<(<<"a">>)>>,
                 rules |-> <<[key |-> <<"a">>, value |-> <<"a">>]>>]>>

(* The step of C4. *)
C4_LiteralInStringStep ==
    \A c \in {";", "}"} :
        (Reads(c) /\ Top = "String") =>
            /\ stack' = stack
            /\ char_buffer' = Append(char_buffer, c)
            /\ ruleset' = ruleset
            /\ rule' = rule
            /\ root' = root

(* C4: in String context `;` and `}` are accumulated as content: the       *)
(* stack, the rule set in progress and the Document do not change.         *)
C4_LiteralInString == [][C4_LiteralInStringStep]_vars

(* A single rule was stored whose value is the quoted string ";". *)
C4_Witness ==
    /\ Len(ruleset.rules) = 1
    /\ ruleset.rules[1].value = <<"\"", ";", "\"">>

(* The quote that opened the String on top of the stack: the last quote    *)
(* in the buffer (begin put it there, and a string holds no other quote    *)
(* before the character being read).                                       *)
OpeningQuote ==
    LET at == {i \in 1..Len(char_buffer) : char_buffer[i] \in Quotes}
    IN  char_buffer[CHOOSE i \in at : \A j \in at : j <= i]

(* The step of C5. *)
C5_OtherQuoteStep ==
    \A c \in Quotes :
        (Reads(c) /\ Top = "String" /\ c # OpeningQuote) =>
            /\ stack' = stack
            /\ char_buffer' = Append(char_buffer, c)

(* C5: in String context the quote other than the one that opened the      *)
(* string is accumulated as content and leaves the String on the stack.    *)
C5_OnlyMatchingQuoteEnds == [][C5_OtherQuoteStep]_vars

(* The step of C6 as stated. *)
C6_QuoteNotBufferedStep ==
    \A c \in Quotes :
        (Reads(c) /\ Top = "Value") =>
            /\ stack' = Append(stack, "String")
            /\ char_buffer' = char_buffer

(* C6 as stated: a quote read in Value context pushes String and leaves    *)
(* the character buffer unchanged.                                         *)
C6_QuoteNotBuffered == [][C6_QuoteNotBufferedStep]_vars

(* The step of C6 amended. *)
C6_QuoteBufferedStep ==
    \A c \in Quotes :
        (Reads(c) /\ Top = "Value") =>
            /\ stack' = Append(stack, "String")
            /\ char_buffer' = Append(char_buffer, c)
            /\ ruleset' = ruleset
            /\ rule' = rule
            /\ root' = root

(* C6 amended: a quote read in Value context pushes String and is itself   *)
(* appended to the character buffer, which is otherwise unchanged.         *)
C6_QuoteBuffered == [][C6_QuoteBufferedStep]_vars

(* A value that starts with text and then opens a string. *)
C6_Witness ==
    /\ stack = <<"Root", "RuleSet", "Value", "String">>
    /\ char_buffer = <<"a", "\"">>

QuoteCount(s) == Cardinality({i \in 1..Len(s) : s[i] \in Quotes})

Even(n) == n % 2 = 0

(* Every value stored in the rule set r. *)
ValuesOf(r) == {r.rules[i].value : i \in 1..Len(r.rules)}

StoredValues == ValuesOf(ruleset) \cup UNION {ValuesOf(root[i]) : i \in 1..Len(root)}

(* C7: the opening and the closing quote of a string are kept or dropped   *)
(* together: the quotes of a value being read come in pairs once its       *)
(* strings are closed, one is unpaired while a string is open, and every   *)
(* stored value holds an even number of quotes.                            *)
C7_QuotesInPairs ==
    /\ Top = "Value" => Even(QuoteCount(char_buffer))
    /\ Top = "String" => ~Even(QuoteCount(char_buffer))
    /\ \A v \in StoredValues : Even(QuoteCount(v))

(* A stored value made of text around one quoted string. *)
C7_Witness ==
    \E v \in StoredValues : v = <<"a", "\"", "a", "\"">>

(* The texts of s between the separators sep. *)
RECURSIVE Split(_, _)
Split(s, sep) ==
    LET at == {i \in 1..Len(s) : s[i] = sep}
    IN  IF at = {} THEN <<s>>
        ELSE LET i == CHOOSE k \in at : \A j \in at : k <= j
             IN  <<SubSeq(s, 1, i - 1)>> \o Split(SubSeq(s, i + 1, Len(s)), sep)

(* The selector list read so far, when css is the start of a first selector *)
(* list that has just been cut by a `,` or closed by the `{`.               *)
SelectorListRead ==
    /\ css # <<>>
    /\ Last(css) \in {",", "{"}
    /\ \A i \in 1..(Len(css) - 1) : css[i] # "{"

SelectorTexts == Split(SubSeq(css, 1, Len(css) - 1), ",")

SelectorsAsWritten ==
    /\ ruleset.selectors = [i \in 1..Len(SelectorTexts) |-> trim(SelectorTexts[i])]
    /\ stack = IF Last(css) = "," THEN <<"Root", "Selector">> ELSE <<"Root", "RuleSet">>
    /\ root = <<>>

(* C8 as stated: k comma-separated texts and `{` give exactly the k         *)
(* trimmed texts as selectors; each `,` adds one and keeps the stack.       *)
C8_SelectorList == SelectorListRead => SelectorsAsWritten

(* C8 amended: the same, for a list whose first text is not empty (the      *)
(* first character of a list is read in Root context and is selector text). *)
C8_SelectorListNonEmptyFirst ==
    (SelectorListRead /\ css[1] \notin {",", "{"}) => SelectorsAsWritten

(* Two selectors, the first written with whitespace around it. *)
C8_Witness ==
    /\ css = <<" ", "a", ",", "a", "{">>
    /\ ruleset.selectors = <<(<<"a">>), (<<"a">>)>>

(* The step of C9. *)
C9_EmptyBodyStep ==
    (Top = "RuleSet" /\ ruleset.rules = <<>>) =>
        /\ \A c \in {" ", "\n", "\r", "\t"} :
              Reads(c) => /\ stack' = stack
                          /\ ruleset' = ruleset
                          /\ root' = root
        /\ Reads("}") =>
              /\ root' = Append(root, [selectors |-> ruleset.selectors, rules |-> <<>>])
              /\ ruleset' = CssRuleSet_new
              /\ stack' = <<"Root">>

(* C9: in a rule set without declarations whitespace is absorbed, and the   *)
(* closing `}` appends exactly one rule set to the Document, with the       *)
(* selectors read before the `{` and no rules.                              *)
C9_EmptyBody == [][C9_EmptyBodyStep]_vars

(* The input a{ } has been read. *)
C9_Witness ==
    /\ css = <<"a", "{", " ", "}">>
    /\ root = <<[selectors |-> <<(<<"a">>)>>, rules |-> <<>>]>>

Blank == {" ", "\n", "\r", "\t"}

(* The part of b from its first to its last non-blank character. *)
Core(b) ==
    LET at == {i \in 1..Len(b) : b[i] \notin Blank}
    IN  IF at = {} THEN <<>>
        ELSE SubSeq(b, CHOOSE i \in at : \A j \in at : i <= j,
                       CHOOSE i \in at : \A j \in at : j <= i)

NoOuterBlank(s) == s = <<>> \/ (s[1] \notin Blank /\ s[Len(s)] \notin Blank)

(* Every selector, key and value stored in the rule set r. *)
TokensOf(r) ==
    {r.selectors[i] : i \in 1..Len(r.selectors)}
        \cup {r.rules[i].key : i \in 1..Len(r.rules)}
        \cup ValuesOf(r)

StoredTokens ==
    TokensOf(ruleset) \cup {rule.key, rule.value}
        \cup UNION {TokensOf(root[i]) : i \in 1..Len(root)}

(* No stored token starts or ends with whitespace. *)
C10_NoOuterBlank == \A s \in StoredTokens : NoOuterBlank(s)

(* A token is stored as the core of the buffer. *)
C10_InnerKeptStep ==
    /\ \A c \in {",", "{"} :
          (Reads(c) /\ Top = "Selector") =>
              Last(ruleset'.selectors) = Core(char_buffer)
    /\ (Reads(":") /\ Top = "Key") => rule'.key = Core(char_buffer)
    /\ (Reads(";") /\ Top = "Value") =>
          Last(ruleset'.rules) = [key |-> rule.key, value |-> Core(char_buffer)]
    /\ (Reads("}") /\ Top = "Value") =>
          Last(Last(root').rules) = [key |-> rule.key, value |-> Core(char_buffer)]

(* C10: no stored selector, key or value starts or ends with whitespace,    *)
(* and each is stored as the buffer from its first to its last              *)
(* non-whitespace character, the whitespace in between included.            *)
C10_Trimmed == []C10_NoOuterBlank /\ [][C10_InnerKeptStep]_vars

(* A selector written with whitespace around and inside it. *)
C10_Witness ==
    /\ css = <<" ", "a", " ", "a", "{">>
    /\ ruleset.selectors = <<(<<"a", " ", "a">>)>>

(* The context in which the i-th decision step of the last character read  *)
(* classified it.                                                          *)
ClassifiedIn(i) ==
    IF classified[i] = <<>> THEN "None" ELSE Last(classified[i])

(* C11: whenever a character is classified, also when it is reprocessed    *)
(* after EndKeepChar, the stack is not empty and its bottom entry is Root;  *)
(* the panic of the None context is never reached.                          *)
C11_StackNeverEmpty ==
    /\ pc # "panic"
    /\ stack # <<>>
    /\ stack[1] = "Root"
    /\ \A i \in 1..Len(classified) :
          /\ classified[i] # <<>>
          /\ classified[i][1] = "Root"

(* A `}` was classified in Value context and again in RuleSet context. *)
C11_Witness ==
    /\ classified = <<(<<"Root", "RuleSet", "Value">>), (<<"Root", "RuleSet">>)>>
    /\ stack = <<"Root">>

(* C12 as stated: after the first character Root is never again the        *)
(* context in which a character is classified.                             *)
C12_RootOnlyOnce ==
    Len(css) >= 2 => \A i \in 1..Len(classified) : ClassifiedIn(i) # "Root"

(* The last character read was a `}` that closed a rule set. *)
ClosedRuleSet ==
    /\ css # <<>>
    /\ Last(css) = "}"
    /\ ClassifiedIn(Len(classified)) = "RuleSet"

(* The step of C12 amended. *)
C12_RootPerRuleSetStep ==
    css' # css =>
        /\ ClassifiedIn(1)' = "Root" <=> (css = <<>> \/ ClosedRuleSet)
        /\ ClassifiedIn(1)' = "Root" =>
              /\ stack' = <<"Root", "Selector">>
              /\ Len(classified') = 1
        /\ \A i \in 2..Len(classified') : ClassifiedIn(i)' # "Root"

(* C12 amended: Root is the context in which a character is classified     *)
(* exactly for the first character of the input and for the first          *)
(* character after a `}` that closed a rule set, and each time it makes    *)
(* the one transition into Selector.                                       *)
C12_RootPerRuleSet == [][C12_RootPerRuleSetStep]_vars

(* The first character after a closed rule set was classified in Root. *)
C12_Witness ==
    /\ Len(root) = 1
    /\ css = <<"a", "{", "}", "a">>
    /\ classified = <<(<<"Root">>)>>
    /\ stack = <<"Root", "Selector">>

(* Outside a declaration no rule is in progress, outside a rule set no     *)
(* rule set is, and the value of the rule in progress is never held.       *)
C13_NoResidue ==
    /\ rule.value = <<>>
    /\ Top \in {"Root", "Selector", "RuleSet", "Key"} => rule = CssRule_new
    /\ Top \in {"Root", "Selector"} => ruleset.rules = <<>>
    /\ Top = "Root" => ruleset = CssRuleSet_new

(* The step of C13. *)
C13_ResetStep ==
    /\ \A c \in {";", "}"} : (Reads(c) /\ Top = "Value") => rule' = CssRule_new
    /\ Len(root') > Len(root) =>
          /\ ruleset' = CssRuleSet_new
          /\ IsPrefix(ruleset.selectors, Last(root').selectors)
          /\ IsPrefix(ruleset.rules, Last(root').rules)

(* C13: right after a rule is moved into the rule set the rule in progress *)
(* is empty, right after a rule set is moved into the Document the rule    *)
(* set in progress is empty, and nothing of a stored rule or rule set is   *)
(* left in the accumulators.                                               *)
C13_NoLeak == []C13_NoResidue /\ [][C13_ResetStep]_vars

(* The input a{a:}a{} has been read: the second rule set has no rule. *)
C13_Witness ==
    /\ root = <<[selectors |-> <<(<<"a">>)>>,
                 rules |-> <<[key |-> <<"a">>, value |-> <<>>]>>],
                [selectors |-> <<(<<"a">>)>>, rules |-> <<>>]>>
    /\ ruleset = CssRuleSet_new
    /\ rule = CssRule_new

(* C14: a character is classified at most twice: a second decision step    *)
(* happens only for a `}` first classified in Value context, it runs in    *)
(* RuleSet context (the context below a Value is always RuleSet) and it    *)
(* is the last one.                                                        *)
C14_AtMostTwoSteps ==
    /\ Len(classified) <= 2
    /\ Len(classified) = 2 =>
          /\ current_char = "}"
          /\ ClassifiedIn(1) = "Value"
          /\ ClassifiedIn(2) = "RuleSet"
    /\ \A i \in 1..Len(stack) :
          stack[i] = "Value" => (i > 1 /\ stack[i - 1] = "RuleSet")

(* The input a{a:} has been read, its `}` classified twice. *)
C14_Witness ==
    /\ css = <<"a", "{", "a", ":", "}">>
    /\ Len(classified) = 2
    /\ Len(root) = 1

(* The step of C15. *)
C15_DocumentStep ==
    IF css' # css /\ current_char' = "}" /\ ClassifiedIn(Len(classified))' = "RuleSet"
    THEN /\ Len(root') = Len(root) + 1
         /\ IsPrefix(root, root')
    ELSE root' = root

(* C15: the Document changes only when a `}` is classified in RuleSet      *)
(* context, directly or after a Value ended: that step appends exactly one *)
(* rule set and changes none already stored, and no other step changes     *)
(* the Document.                                                           *)
C15_DocumentOnlyOnClose == [][C15_DocumentStep]_vars

(* Two different rule sets are stored, the second just closed. *)
C15_Witness ==
    /\ Len(root) = 2
    /\ root[1] # root[2]
    /\ Last(css) = "}"
    /\ ClassifiedIn(Len(classified)) = "RuleSet"

(* The step of C16. *)
C16_RootStep ==
    Top = "Root" =>
        \A c \in Chars :
            Reads(c) =>
                /\ stack' = <<"Root", "Selector">>
                /\ char_buffer' = Append(char_buffer, c)
                /\ classified' = <<stack>>
                /\ ruleset' = ruleset
                /\ rule' = rule
                /\ root' = root

(* C16: in Root context every character, `{`, `,`, `}` and whitespace       *)
(* included, pushes Selector and is appended to the buffer without being    *)
(* classified by the Selector policy: no selector is stored and no rule     *)
(* set is opened.                                                           *)
C16_RootBeginsSelector == [][C16_RootStep]_vars

(* A `{` read in Root context is selector text. *)
C16_Witness ==
    /\ css = <<"{">>
    /\ stack = <<"Root", "Selector">>
    /\ char_buffer = <<"{">>
    /\ ruleset = CssRuleSet_new

(* The step of C17. *)
C17_KeyStep ==
    Top = "Key" =>
        /\ \A c \in Chars \ {":"} :
              Reads(c) =>
                  /\ stack' = stack
                  /\ char_buffer' = Append(char_buffer, c)
                  /\ ruleset' = ruleset
                  /\ rule' = rule
                  /\ root' = root
        /\ Reads(":") => stack' = <<"Root", "RuleSet", "Value">>

(* C17: in Key context only `:` removes the Key; every other character,     *)
(* `}`, `;`, `{` and the quotes included, is accumulated and leaves the     *)
(* stack, the rules and the Document unchanged.                             *)
C17_OnlyColonEndsKey == [][C17_KeyStep]_vars

(* A key that holds a `}` and a `;`. *)
C17_Witness ==
    /\ stack = <<"Root", "RuleSet", "Key">>
    /\ char_buffer = <<"a", "}", ";">>
    /\ root = <<>>

StackShapes ==
    {<<"Root">>, <<"Root", "Selector">>, <<"Root", "RuleSet">>,
     <<"Root", "RuleSet", "Key">>, <<"Root", "RuleSet", "Value">>,
     <<"Root", "RuleSet", "Value", "String">>}

(* C18: the stack, also when a character is reprocessed, is one of the six *)
(* shapes [Root], [Root, Selector], [Root, RuleSet], [Root, RuleSet, Key], *)
(* [Root, RuleSet, Value], [Root, RuleSet, Value, String]: its depth is at *)
(* most 4 and None is never pushed.                                        *)
C18_SixShapes ==
    /\ stack \in StackShapes
    /\ \A i \in 1..Len(classified) : classified[i] \in StackShapes

(* The deepest shape, reached by a quote inside a value. *)
C18_Witness ==
    /\ stack = <<"Root", "RuleSet", "Value", "String">>
    /\ Last(css) \in Quotes

(* C19: whenever the top of the stack is Root or RuleSet the buffer holds  *)
(* no character but whitespace: no text of a completed token is left in it. *)
C19_NoTokenTextLeft ==
    Top \in {"Root", "RuleSet"} =>
        \A i \in 1..Len(char_buffer) : char_buffer[i] \in Blank

(* Whitespace absorbed in a rule set is still in the buffer after its `}`. *)
C19_Witness ==
    /\ stack = <<"Root">>
    /\ char_buffer = <<" ">>
    /\ Len(root) = 1

(* The grammar of the input (document := ruleset*, whitespace around rule  *)
(* sets): where a reader of the grammar stands after the character c.      *)
GrammarStep(g, c) ==
    CASE g = "between" ->
             IF c \in Blank THEN "between"
             ELSE IF c \in {"{", "}", ","} THEN "bad" ELSE "selector"
      [] g = "selector" ->
             IF c = "{" THEN "body" ELSE IF c = "}" THEN "bad" ELSE "selector"
      [] g = "body" ->
             IF c \in Blank THEN "body"
             ELSE IF c = "}" THEN "between"
             ELSE IF c \in {"{", ":", ";", ","} THEN "bad" ELSE "key"
      [] g = "key" ->
             IF c = ":" THEN "value"
             ELSE IF c \in {"{", "}", ";"} THEN "bad" ELSE "key"
      [] g = "value" ->
             IF c = "\"" THEN "double"
             ELSE IF c = "'" THEN "single"
             ELSE IF c = ";" THEN "body"
             ELSE IF c = "}" THEN "between" ELSE "value"
      [] g = "double" -> IF c = "\"" THEN "value" ELSE "double"
      [] g = "single" -> IF c = "'" THEN "value" ELSE "single"
      [] OTHER -> "bad"

RECURSIVE Grammar(_)
Grammar(s) ==
    IF s = <<>> THEN "between"
    ELSE GrammarStep(Grammar(SubSeq(s, 1, Len(s) - 1)), s[Len(s)])

(* C20: at the end of an input made of complete rule sets, with optional   *)
(* whitespace before, between and after them, the stack holds only the     *)
(* floor state.                                                            *)
C20_CompleteInputEndsAtFloor ==
    (pc = "done" /\ Grammar(css) = "between") => stack = <<"Root">>

====
